---------------------------- MODULE Spec2Model ----------------------------
(***************************************************************************)
(* A model of the Gantt chart row component                                *)
(*   src/airflow/www/static/js/dag/details/gantt/Row.tsx                   *)
(*                                                                         *)
(* One render of Row is the operator Row(...): it resolves the instance of *)
(* the selected run, computes the geometry of the bar, the failure markers *)
(* and whether the children are rendered.  RenderRows is the recursion of  *)
(* Row into task.children.  The state is what React keeps between renders: *)
(* the props, the selection store, the state of the failure-history        *)
(* queries, and the rows of the last render.                               *)
(*                                                                         *)
(* Three bounded environments drive the same handlers:                     *)
(*   Spec      a tree of groups, the open groups, the selection, clicks;   *)
(*   SpecFetch one task with retries and the fetch of its failure history; *)
(*   SpecGeom  one row, for every instance, window and width.              *)
(*                                                                         *)
(* Conventions                                                             *)
(*   - an optional value is NULL (undefined / null) or Some(v);            *)
(*   - a timestamp is the number of seconds after T0.  The API sends every *)
(*     timestamp in one ISO-8601 format, for which the order and equality  *)
(*     of the strings (lines 62 and 151) are those of the instants;        *)
(*   - a falsy task id or run id (null, undefined, "") is "": the source   *)
(*     reads them only through `x || ""`, `x || undefined` and `!!x`;      *)
(*   - a JavaScript number is an exact rational, NaN, Infinity or          *)
(*     -Infinity (records of kind "fin", "nan", "inf", "ninf"); the        *)
(*     rounding of finite doubles is not modelled.                         *)
(***************************************************************************)
EXTENDS Integers, Sequences, FiniteSets, TLC

VARIABLES
    task,            \* prop task: the task tree, with the instances
    ganttWidth,      \* prop ganttWidth
    openGroupIds,    \* prop openGroupIds
    ganttStartDate,  \* prop ganttStartDate
    ganttEndDate,    \* prop ganttEndDate
    selected,        \* the selection store: [runId, taskId]
    taskFailsCache,  \* the failure-history queries, by <<taskId, runId>>
    rows,            \* the rows of the last render, in document order
    event            \* the handler that ran last: [kind, row]

vars == <<task, ganttWidth, openGroupIds, ganttStartDate, ganttEndDate,
          selected, taskFailsCache, rows, event>>

-----------------------------------------------------------------------------
(* Optional values *)

NULL == <<>>

Some(v) == <<v>>

Val(x) == x[1]

\* The selection store holds null for "nothing selected".
NoSelection == "null"

-----------------------------------------------------------------------------
(* JavaScript numbers *)

Abs(n) == IF n < 0 THEN 0 - n ELSE n

RECURSIVE GCD(_, _)
GCD(a, b) == IF b = 0 THEN a ELSE GCD(b, a % b)

NaN == [k |-> "nan", n |-> 0, d |-> 1]

PosInf == [k |-> "inf", n |-> 0, d |-> 1]

NegInf == [k |-> "ninf", n |-> 0, d |-> 1]

\* The rational n/d (d > 0) in lowest terms.
Fin(n, d) ==
    LET g == GCD(Abs(n), d)
    IN  [k |-> "fin", n |-> n \div g, d |-> d \div g]

Num(i) == Fin(i, 1)

IsFinite(x) == x.k = "fin"

\* a / b of two integers: 0/0 is NaN, a/0 is Infinity or -Infinity.
Div(a, b) ==
    IF b = 0
    THEN IF a = 0 THEN NaN ELSE IF a > 0 THEN PosInf ELSE NegInf
    ELSE IF b > 0 THEN Fin(a, b) ELSE Fin(0 - a, 0 - b)

\* w * x of an integer and a number: 0 * Infinity is NaN.
Mul(w, x) ==
    CASE x.k = "fin"  -> Fin(w * x.n, x.d)
      [] x.k = "nan"  -> NaN
      [] x.k = "inf"  -> IF w = 0 THEN NaN ELSE IF w > 0 THEN PosInf ELSE NegInf
      [] x.k = "ninf" -> IF w = 0 THEN NaN ELSE IF w > 0 THEN NegInf ELSE PosInf

\* x + y: Infinity + -Infinity is NaN.
Add(x, y) ==
    CASE x.k = "nan" \/ y.k = "nan" -> NaN
      [] x.k = "fin" /\ y.k = "fin" -> Fin(x.n * y.d + y.n * x.d, x.d * y.d)
      [] x.k = "fin" /\ y.k # "fin" -> y
      [] x.k # "fin" /\ y.k = "fin" -> x
      [] OTHER -> IF x.k = y.k THEN x ELSE NaN

\* x < y: every comparison with NaN is false.
Less(x, y) ==
    CASE x.k = "nan" \/ y.k = "nan" -> FALSE
      [] x.k = "fin" /\ y.k = "fin" -> x.n * y.d < y.n * x.d
      [] x.k = "ninf" -> y.k # "ninf"
      [] x.k = "inf"  -> FALSE
      [] OTHER -> y.k = "inf"

\* x <= y: every comparison with NaN is false.
Leq(x, y) ==
    /\ x.k # "nan"
    /\ y.k # "nan"
    /\ ~Less(y, x)

-----------------------------------------------------------------------------
(* Collaborators of Row that live outside Row.tsx *)

\* getDuration of src/datetime_utils, in the unit of the timestamps:
\* b - a when both are defined, else 0.
getDuration(a, b) ==
    IF a # NULL /\ b # NULL THEN Val(b) - Val(a) ELSE 0

\* moment(a).isAfter(b): false when either moment is invalid; an absent b is
\* the present time, which no recorded failure is after.
isAfter(a, b) ==
    /\ a # NULL
    /\ b # NULL
    /\ Val(a) > Val(b)

\* A failure-history query that was never enabled.
NoQuery == [status |-> "absent", data |-> <<>>]

\* The key of the query of useTaskFails({taskId, runId, enabled}).
QueryKey(taskId, runId) == <<taskId, runId>>

\* data of useTaskFails: the list a resolved query of that key holds, and
\* undefined before that; what `enabled` governs is the fetch, not the read.
useTaskFails(cache, taskId, runId) ==
    LET key == QueryKey(taskId, runId)
    IN  IF key \in DOMAIN cache /\ cache[key].status = "resolved"
        THEN Some(cache[key].data)
        ELSE NULL

\* onSelect of useSelection: the store takes the pair it is given.
onSelect(runId, taskId) == [runId |-> runId, taskId |-> taskId]

-----------------------------------------------------------------------------
(* Row: one render of the component *)

Min(S) == CHOOSE x \in S : \A y \in S : x <= y

\* A find that ignores the run: the first instance of the task.
findInstance_AnyRun(instances, runId) ==
    IF instances = <<>> THEN NULL ELSE Some(instances[1])

\* task.instances.find((ti) => ti.runId === runId): the first match, or
\* undefined.
findInstance(instances, runId) ==
    LET hits == {i \in DOMAIN instances : instances[i].runId = runId}
    IN  IF hits = {} THEN NULL ELSE Some(instances[Min(hits)])

\* instance?.f for the timestamp fields.
startDateOf(instance) == IF instance = NULL THEN NULL ELSE Val(instance).startDate

endDateOf(instance) == IF instance = NULL THEN NULL ELSE Val(instance).endDate

queuedDttmOf(instance) == IF instance = NULL THEN NULL ELSE Val(instance).queuedDttm

\* taskId === instance?.taskId; null is never === undefined.
isSelected(taskId, instance) ==
    /\ instance # NULL
    /\ taskId = Val(instance).taskId

\* A comparison that lets a task queued at its start pass.
hasValidQueuedDttm_OrEqual(instance) ==
    /\ queuedDttmOf(instance) # NULL
    /\ IF startDateOf(instance) # NULL
       THEN Val(queuedDttmOf(instance)) <= Val(startDateOf(instance))
       ELSE TRUE

\* !!queuedDttm && (startDate && queuedDttm ? queuedDttm < startDate : true)
hasValidQueuedDttm(instance) ==
    /\ queuedDttmOf(instance) # NULL
    /\ IF startDateOf(instance) # NULL
       THEN Val(queuedDttmOf(instance)) < Val(startDateOf(instance))
       ELSE TRUE

\* openGroupIds.includes(task.id || "")
isOpen(openIds, t) == t.id \in openIds

\* A fetch for every instance that was tried at all.
fetchEnabled_FirstTry(instance, t) ==
    /\ instance # NULL
    /\ Val(instance).tryNumber # NULL
    /\ Val(Val(instance).tryNumber) >= 1
    /\ t.id # ""

\* !!(instance?.tryNumber && instance?.tryNumber > 1) && !!task.id
fetchEnabled(instance, t) ==
    /\ instance # NULL
    /\ Val(instance).tryNumber # NULL
    /\ Val(Val(instance).tryNumber) # 0
    /\ Val(Val(instance).tryNumber) > 1
    /\ t.id # ""

taskDuration(instance) == getDuration(startDateOf(instance), endDateOf(instance))

queuedDuration(instance) ==
    IF hasValidQueuedDttm(instance)
    THEN getDuration(queuedDttmOf(instance), startDateOf(instance))
    ELSE 0

\* An offset that is always taken from startDate.
taskStartOffset_FromStart(gStart, instance) ==
    getDuration(gStart, startDateOf(instance))

\* queuedDttm || startDate: the queued timestamp when it is truthy.
taskStartOffset(gStart, instance) ==
    IF hasValidQueuedDttm(instance)
    THEN getDuration(gStart,
                     IF queuedDttmOf(instance) # NULL
                     THEN queuedDttmOf(instance)
                     ELSE startDateOf(instance))
    ELSE getDuration(gStart, startDateOf(instance))

\* The least width of a bar, in pixels.
MinWidth == 5

\* let width = ganttWidth * taskDurationPercent; if (width < 5) width = 5;
barWidth(gWidth, instance, runDuration) ==
    LET taskDurationPercent == Div(taskDuration(instance), runDuration)
        width == Mul(gWidth, taskDurationPercent)
    IN  IF Less(width, Num(MinWidth)) THEN Num(MinWidth) ELSE width

\* let queuedWidth = hasValidQueuedDttm ? ganttWidth * queuedDurationPercent : 0;
\* if (hasValidQueuedDttm && queuedWidth < 5) queuedWidth = 5;
barQueuedWidth(gWidth, instance, runDuration) ==
    LET queuedDurationPercent == Div(queuedDuration(instance), runDuration)
        queuedWidth == IF hasValidQueuedDttm(instance)
                       THEN Mul(gWidth, queuedDurationPercent)
                       ELSE Num(0)
    IN  IF hasValidQueuedDttm(instance) /\ Less(queuedWidth, Num(MinWidth))
        THEN Num(MinWidth)
        ELSE queuedWidth

\* const offsetMargin = taskStartOffsetPercent * ganttWidth;
barOffsetMargin(gWidth, gStart, instance, runDuration) ==
    LET taskStartOffsetPercent == Div(taskStartOffset(gStart, instance), runDuration)
    IN  Mul(gWidth, taskStartOffsetPercent)

\* instance.state !== "queued" && hasValidQueuedDttm: the queued SimpleStatus.
showQueuedSegment(instance) ==
    /\ instance # NULL
    /\ Val(instance).state # "queued"
    /\ hasValidQueuedDttm(instance)

\* A filter that keeps the failure of the current attempt.
keepTaskFail_CurrentToo(tf, instance, gStart) == isAfter(tf.startDate, gStart)

\* The filter of the failure markers.
keepTaskFail(tf, instance, gStart) ==
    /\ tf.startDate # startDateOf(instance)
    /\ isAfter(tf.startDate, gStart)

\* (taskFails || []).filter(...): the TaskFail markers, in order.
failMarkers(taskFails, instance, gStart) ==
    LET keep(tf) == keepTaskFail(tf, instance, gStart)
    IN  SelectSeq(IF taskFails = NULL THEN <<>> ELSE Val(taskFails), keep)

\* A row that maps its children whether or not its group is open.
rendersChildren_AlwaysOpen(openIds, t) == t.children # NULL

\* isOpen && !!task.children: the children are mapped to rows.
rendersChildren(openIds, t) ==
    /\ isOpen(openIds, t)
    /\ t.children # NULL

\* What one render of Row puts on the screen for its own task.
Row(t, gWidth, openIds, gStart, gEnd, sel, cache) ==
    LET runDuration == getDuration(gStart, gEnd)
        instance == findInstance(t.instances, sel.runId)
        taskFails == useTaskFails(cache, t.id, sel.runId)
        width == barWidth(gWidth, instance, runDuration)
        queuedWidth == barQueuedWidth(gWidth, instance, runDuration)
    IN  [ taskId |-> t.id,
          instance |-> instance,
          isSelected |-> isSelected(sel.taskId, instance),
          isOpen |-> isOpen(openIds, t),
          fetchKey |-> QueryKey(t.id, sel.runId),
          fetchEnabled |-> fetchEnabled(instance, t),
          taskFails |-> taskFails,
          runDuration |-> runDuration,
          taskDuration |-> taskDuration(instance),
          taskStartOffset |-> taskStartOffset(gStart, instance),
          hasValidQueuedDttm |-> hasValidQueuedDttm(instance),
          hasBar |-> instance # NULL,
          flexWidth |-> Add(width, queuedWidth),
          offsetMargin |-> barOffsetMargin(gWidth, gStart, instance, runDuration),
          queuedSegment |-> showQueuedSegment(instance),
          queuedWidth |-> queuedWidth,
          width |-> width,
          markers |-> failMarkers(taskFails, instance, gStart),
          rendersChildren |-> rendersChildren(openIds, t) ]

\* The rows of a render of <Row task={t}>, in document order: the row of t,
\* then the rows of each child, in the order of task.children.
RECURSIVE RenderRows(_, _, _, _, _, _, _)
RenderRows(t, gWidth, openIds, gStart, gEnd, sel, cache) ==
    LET RECURSIVE childRows(_)
        childRows(cs) ==
            IF cs = <<>>
            THEN <<>>
            ELSE RenderRows(Head(cs), gWidth, openIds, gStart, gEnd, sel, cache)
                 \o childRows(Tail(cs))
    IN  <<Row(t, gWidth, openIds, gStart, gEnd, sel, cache)>>
        \o (IF rendersChildren(openIds, t) THEN childRows(Val(t.children)) ELSE <<>>)

\* The queries after a render: an enabled query that is absent is fetched.
afterRender(cache, rendered) ==
    LET enabledKeys == {rendered[i].fetchKey : i \in
                          {j \in DOMAIN rendered : rendered[j].fetchEnabled}}
    IN  [key \in DOMAIN cache \cup enabledKeys |->
            IF key \in DOMAIN cache /\ cache[key].status # "absent"
            THEN cache[key]
            ELSE IF key \in enabledKeys
                 THEN [status |-> "inflight", data |-> <<>>]
                 ELSE NoQuery]

-----------------------------------------------------------------------------
(* The handlers: every change of a prop, of the selection or of a query is *)
(* followed by a render of the whole row tree.                             *)

\* The new props, selection and queries, the rows they render, and the
\* fetches that render starts.
Rerender(t2, width2, open2, start2, end2, sel2, cache2, ev) ==
    /\ task' = t2
    /\ ganttWidth' = width2
    /\ openGroupIds' = open2
    /\ ganttStartDate' = start2
    /\ ganttEndDate' = end2
    /\ selected' = sel2
    /\ rows' = RenderRows(t2, width2, open2, start2, end2, sel2, cache2)
    /\ taskFailsCache' = afterRender(cache2, rows')
    /\ event' = ev

\* The first render of the row tree.
Mount ==
    /\ rows = <<>>
    /\ Rerender(task, ganttWidth, openGroupIds, ganttStartDate, ganttEndDate,
                selected, taskFailsCache, [kind |-> "mount", row |-> 0])

\* onClick of the instance bar of row i (lines 119-124).
ClickBar(i) ==
    /\ i \in DOMAIN rows
    /\ rows[i].hasBar
    /\ Rerender(task, ganttWidth, openGroupIds, ganttStartDate, ganttEndDate,
                onSelect(Val(rows[i].instance).runId, Val(rows[i].instance).taskId),
                taskFailsCache, [kind |-> "click", row |-> i])

Click == \E i \in DOMAIN rows : ClickBar(i)

\* Another component changes the selection store.
ChangeSelection(S) ==
    /\ rows # <<>>
    /\ \E sel2 \in S :
          /\ sel2 # selected
          /\ Rerender(task, ganttWidth, openGroupIds, ganttStartDate, ganttEndDate,
                      sel2, taskFailsCache, [kind |-> "select", row |-> 0])

\* The parent passes a new snapshot of the task tree.
SetTask(S) ==
    /\ rows # <<>>
    /\ \E t2 \in S :
          /\ t2 # task
          /\ Rerender(t2, ganttWidth, openGroupIds, ganttStartDate, ganttEndDate,
                      selected, taskFailsCache, [kind |-> "task", row |-> 0])

\* The parent passes a new time window.
SetWindow(S) ==
    /\ rows # <<>>
    /\ \E w \in S :
          /\ w # <<ganttStartDate, ganttEndDate>>
          /\ Rerender(task, ganttWidth, openGroupIds, w[1], w[2],
                      selected, taskFailsCache, [kind |-> "window", row |-> 0])

\* The parent opens or closes one group.
ToggleGroup(S) ==
    /\ rows # <<>>
    /\ \E id \in S :
          Rerender(task, ganttWidth,
                   IF id \in openGroupIds
                   THEN openGroupIds \ {id}
                   ELSE openGroupIds \cup {id},
                   ganttStartDate, ganttEndDate,
                   selected, taskFailsCache, [kind |-> "open", row |-> 0])

\* A fetch in flight resolves with the failure history the backend holds.
FetchResolve(S) ==
    /\ rows # <<>>
    /\ \E key \in DOMAIN taskFailsCache, data \in S :
          /\ taskFailsCache[key].status = "inflight"
          /\ Rerender(task, ganttWidth, openGroupIds, ganttStartDate, ganttEndDate,
                      selected,
                      [taskFailsCache EXCEPT
                          ![key] = [status |-> "resolved", data |-> data]],
                      [kind |-> "fetched", row |-> 0])

-----------------------------------------------------------------------------
(* The bounded inputs *)

\* The latest timestamp of the bounded runs, in seconds after T0.
MaxTime == 2

\* The largest tryNumber of an instance.
MaxTry == 2

\* ganttWidth = 500: the default of the prop.
DefaultGanttWidth == 500

Times == 0 .. MaxTime

Optional(S) == {NULL} \cup {Some(v) : v \in S}

\* A container that is not laid out yet is 0 pixels wide.
Widths == {0, 100, DefaultGanttWidth}

Instance(runId, taskId, state, startDate, endDate, queuedDttm, tryNumber) ==
    [ runId |-> runId, taskId |-> taskId, state |-> state,
      startDate |-> startDate, endDate |-> endDate,
      queuedDttm |-> queuedDttm, tryNumber |-> tryNumber ]

TaskFail(taskId, startDate, endDate) ==
    [taskId |-> taskId, startDate |-> startDate, endDate |-> endDate]

Leaf(id, instances) ==
    [id |-> id, children |-> NULL, instances |-> instances]

Group(id, children, instances) ==
    [id |-> id, children |-> Some(children), instances |-> instances]

NoEvent == [kind |-> "none", row |-> 0]

NoQueries == [key \in {} |-> NoQuery]

-----------------------------------------------------------------------------
(* Spec: a tree of groups and tasks, the open groups and the selection *)

\* The run of each task of the trees below: t2 waits for t1, t3 is queued.
RunOf(runId, id) ==
    CASE id = "t1" -> Instance(runId, id, "success", Some(0), Some(1), NULL, Some(1))
      [] id = "t2" -> Instance(runId, id, "failed", Some(1), Some(MaxTime), Some(0), Some(1))
      [] id = "t3" -> Instance(runId, id, "queued", NULL, NULL, Some(MaxTime), Some(0))
      [] OTHER     -> Instance(runId, id, "failed", Some(0), Some(MaxTime), NULL, NULL)

\* The instances of a task in a snapshot in which the runs of `runs` exist.
InstancesOf(runs, id) ==
    CASE runs = "both" -> <<RunOf("r2", id), RunOf("r1", id)>>
      [] runs = "r1"   -> <<RunOf("r1", id)>>
      [] runs = "leaf" -> IF id \in {"t1", "t2", "t3"} THEN <<RunOf("r1", id)>> ELSE <<>>

TreeShapes(I(_)) ==
    { Group("g1", <<Group("g2", <<Leaf("t1", I("t1")), Leaf("t2", I("t2"))>>, I("g2")),
                    Leaf("t3", I("t3"))>>, I("g1")),
      Group("g1", <<Leaf("t1", I("t1")),
                    Group("g2", <<Leaf("t2", I("t2"))>>, I("g2")),
                    Leaf("t3", I("t3"))>>, I("g1")),
      Group("", <<Group("g1", <<Leaf("t1", I("t1"))>>, I("g1"))>>, I("")),
      Group("g1", <<Group("g2", <<>>, I("g2")), Leaf("t1", I("t1"))>>, I("g1")),
      Leaf("t1", I("t1")) }

TreeSnapshots ==
    UNION { LET I(id) == InstancesOf(runs, id) IN TreeShapes(I) :
            runs \in {"both", "r1", "leaf"} }

TreeSelections ==
    [runId : {NoSelection, "r1", "r2"}, taskId : {NoSelection, "t1"}]

GroupIds == {"g1", "g2", "t1"}

\* A window of the whole run, none, one of no length, one that ends before it
\* starts.
TreeWindows ==
    { <<NULL, NULL>>, <<Some(0), Some(MaxTime)>>, <<Some(0), Some(0)>>,
      <<Some(1), Some(0)>> }

Init ==
    /\ task \in TreeSnapshots
    /\ ganttWidth = DefaultGanttWidth
    /\ openGroupIds = {}
    /\ ganttStartDate = NULL
    /\ ganttEndDate = NULL
    /\ selected = [runId |-> NoSelection, taskId |-> NoSelection]
    /\ taskFailsCache = NoQueries
    /\ rows = <<>>
    /\ event = NoEvent

Next ==
    \/ Mount
    \/ Click
    \/ ChangeSelection(TreeSelections)
    \/ SetTask(TreeSnapshots)
    \/ SetWindow(TreeWindows)
    \/ ToggleGroup(GroupIds)

Spec == Init /\ [][Next]_vars

-----------------------------------------------------------------------------
(* Properties of the row tree, under Spec *)

\* The ids of a task tree in document order: a task, then its children in
\* the order of task.children.
RECURSIVE Preorder(_)
Preorder(t) ==
    LET RECURSIVE each(_)
        each(cs) == IF cs = <<>> THEN <<>> ELSE Preorder(Head(cs)) \o each(Tail(cs))
    IN  <<t.id>> \o (IF t.children = NULL THEN <<>> ELSE each(Val(t.children)))

\* Every node of a task tree with the ids of its proper ancestors.
RECURSIVE NodePaths(_, _)
NodePaths(t, ancestors) ==
    {<<t.id, ancestors>>}
    \cup (IF t.children = NULL
          THEN {}
          ELSE UNION { NodePaths(Val(t.children)[i], ancestors \cup {t.id}) :
                       i \in DOMAIN Val(t.children) })

\* The nodes all of whose proper ancestors are open groups.
OpenPathIds ==
    {p[1] : p \in {q \in NodePaths(task, {}) : q[2] \subseteq openGroupIds}}

RenderedIds == [i \in DOMAIN rows |-> rows[i].taskId]

\* C3: the rows of a render are the root and every node all of whose proper
\* ancestors are in openGroupIds, each once, in the order of task.children;
\* so a task's children have rows exactly when the task has a row, its id is
\* in openGroupIds and it has children.
C3_RowsFollowOpenGroups ==
    rows # <<>> =>
        LET onOpenPath(id) == id \in OpenPathIds
        IN  /\ RenderedIds = SelectSeq(Preorder(task), onOpenPath)
            /\ \A i, j \in DOMAIN rows : rows[i].taskId = rows[j].taskId => i = j

\* C3, witness: a render in which an open group shows its children while a
\* closed group further down hides its own.
C3_Witness ==
    /\ rows # <<>>
    /\ Len(rows) > 1
    /\ Len(rows) < Len(Preorder(task))
    /\ \E i \in DOMAIN rows : i > 1 /\ rows[i].taskId \in {"g1", "g2"}
                              /\ rows[i].taskId \notin openGroupIds

\* C8 as claimed: of two bars of one render (one window, one ganttWidth), the
\* one with the smaller taskStartOffset has an offsetMargin that is not
\* greater than the other's.
C8_OffsetMarginMonotone ==
    \A i, j \in DOMAIN rows :
        ( /\ rows[i].hasBar
          /\ rows[j].hasBar
          /\ rows[i].taskStartOffset < rows[j].taskStartOffset )
        => ~Less(rows[j].offsetMargin, rows[i].offsetMargin)

\* C10: a click on the bar of row i sets the selection to that instance's
\* (runId, taskId); the selected run stays what it was, so every row keeps its
\* instance, and the clicked row is highlighted in the render that follows.
C10_ClickSelectsInstance ==
    [][ \A i \in DOMAIN rows :
          ClickBar(i) =>
            /\ selected'.runId = Val(rows[i].instance).runId
            /\ selected'.taskId = Val(rows[i].instance).taskId
            /\ selected'.runId = selected.runId
            /\ DOMAIN rows' = DOMAIN rows
            /\ \A j \in DOMAIN rows : rows'[j].instance = rows[j].instance
            /\ rows'[i].isSelected ]_vars

\* C10, witness: the last handler was a click on the bar of a child row, which
\* moved the selection to another task.
C10_Witness ==
    /\ event.kind = "click"
    /\ event.row > 1
    /\ rows[event.row].isSelected
    /\ selected.taskId = rows[event.row].taskId
    /\ selected.taskId \notin {NoSelection, "t1"}

-----------------------------------------------------------------------------
(* SpecFetch: one task with retries, its snapshots and its failure history *)

\* The most failures in a fetched history.
MaxFails == 2

\* The instance of run r1 in a snapshot: any start, any tryNumber.
RetriedInstances(id) ==
    { Instance("r1", id, "failed", startDate, NULL, NULL, tryNumber) :
        startDate \in Optional(Times), tryNumber \in Optional(0 .. MaxTry) }

\* A task without instances, or with one of run r2 and one of run r1; the
\* task id may be falsy.
FetchSnapshots ==
    UNION { {Leaf(id, <<>>)}
            \cup { Leaf(id, <<Instance("r2", id, "success", Some(0), Some(1), NULL, Some(1)), ti>>) :
                   ti \in RetriedInstances(id) } :
            id \in {"t1", ""} }

FetchSelections ==
    [runId : {NoSelection, "r1", "r2"}, taskId : {NoSelection}]

FetchWindows == Optional(Times) \X {Some(MaxTime)}

\* The failure histories of the backend: up to MaxFails failures, in the
\* order of their start.
FailHistories ==
    UNION { { [i \in 1 .. n |-> TaskFail("t1", Some(f[i]), Some(f[i]))] :
              f \in {g \in [1 .. n -> Times] :
                       \A i, j \in 1 .. n : i < j => g[i] < g[j]} } :
            n \in 0 .. MaxFails }

InitFetch ==
    /\ task \in FetchSnapshots
    /\ ganttWidth = DefaultGanttWidth
    /\ openGroupIds = {}
    /\ ganttStartDate = Some(0)
    /\ ganttEndDate = Some(MaxTime)
    /\ selected = [runId |-> "r1", taskId |-> NoSelection]
    /\ taskFailsCache = NoQueries
    /\ rows = <<>>
    /\ event = NoEvent

NextFetch ==
    \/ Mount
    \/ Click
    \/ ChangeSelection(FetchSelections)
    \/ SetTask(FetchSnapshots)
    \/ SetWindow(FetchWindows)
    \/ FetchResolve(FailHistories)

SpecFetch == InitFetch /\ [][NextFetch]_vars

\* What the query of a row has fetched so far.
Fetched(row) ==
    IF /\ row.fetchKey \in DOMAIN taskFailsCache
       /\ taskFailsCache[row.fetchKey].status = "resolved"
    THEN taskFailsCache[row.fetchKey].data
    ELSE <<>>

\* C4 as claimed: a row that resolves no instance shows only its frame: no
\* bar, no tooltip and no failure marker, whatever its query holds.
C4_NoInstanceFrameOnly ==
    \A i \in DOMAIN rows :
        rows[i].instance = NULL =>
            /\ ~rows[i].hasBar
            /\ rows[i].markers = <<>>

\* C6: the markers of a row with an instance are the fetched failures whose
\* startDate differs from the instance's and is after ganttStartDate; none
\* starts when the instance starts, and there is none before the data is
\* there.
C6_MarkersAreEarlierFailures ==
    \A i \in DOMAIN rows :
        rows[i].instance # NULL =>
            LET startDate == Val(rows[i].instance).startDate
                earlier(tf) == /\ tf.startDate # startDate
                               /\ ganttStartDate # NULL
                               /\ Val(tf.startDate) > Val(ganttStartDate)
            IN  /\ rows[i].markers = SelectSeq(Fetched(rows[i]), earlier)
                /\ \A m \in DOMAIN rows[i].markers :
                      rows[i].markers[m].startDate # startDate
                /\ rows[i].taskFails = NULL => rows[i].markers = <<>>

\* C6, witness: a fetched history of which one failure is the current attempt
\* and another is marked.
C6_Witness ==
    \E i \in DOMAIN rows :
        /\ rows[i].instance # NULL
        /\ rows[i].markers # <<>>
        /\ \E f \in DOMAIN Fetched(rows[i]) :
              /\ Fetched(rows[i])[f].startDate = Val(rows[i].instance).startDate
              /\ isAfter(Fetched(rows[i])[f].startDate, ganttStartDate)

\* C7: in every render the fetch of the row is enabled exactly when the task
\* has an instance of the selected run whose tryNumber is greater than 1 and
\* the task id is not empty.
C7_FetchEnabledIffRetried ==
    rows # <<>> =>
        LET ofRun == {k \in DOMAIN task.instances :
                        task.instances[k].runId = selected.runId}
            first == task.instances[Min(ofRun)]
        IN  rows[1].fetchEnabled <=>
                /\ ofRun # {}
                /\ first.tryNumber \notin {NULL, Some(0), Some(1)}
                /\ task.id # ""

\* C7, witness: a new snapshot of the task raised tryNumber above 1 and the
\* render that followed enabled the fetch.
C7_Witness ==
    /\ event.kind = "task"
    /\ rows[1].fetchEnabled
    /\ taskFailsCache[rows[1].fetchKey].status = "inflight"

-----------------------------------------------------------------------------
(* SpecGeom: the geometry of one row, for every instance, window and width *)

\* The timestamps of the worked examples: a window of 100 s.
ExampleTimes == {5, 10, 30, 100}

GeomTimes == Times \cup ExampleTimes

GeomInstances ==
    { Instance("r1", "t1", state, startDate, endDate, queuedDttm, Some(1)) :
        state \in {"queued", "success"},
        startDate \in Optional(GeomTimes),
        endDate \in Optional(GeomTimes),
        queuedDttm \in Optional(GeomTimes) }

GeomSnapshots ==
    {Leaf("t1", <<>>)} \cup {Leaf("t1", <<ti>>) : ti \in GeomInstances}

InitGeom ==
    /\ task \in GeomSnapshots
    /\ ganttWidth \in Widths
    /\ openGroupIds = {}
    /\ ganttStartDate \in Optional(GeomTimes)
    /\ ganttEndDate \in Optional(GeomTimes)
    /\ selected = [runId |-> "r1", taskId |-> NoSelection]
    /\ taskFailsCache = NoQueries
    /\ rows = <<>>
    /\ event = NoEvent

NextGeom == Mount

SpecGeom == InitGeom /\ [][NextGeom]_vars

\* The queued timestamp of an instance is valid: it is defined, and there is
\* no startDate or it is before startDate.
QueuedIsValid(ti) ==
    /\ ti.queuedDttm # NULL
    /\ \/ ti.startDate = NULL
       \/ Val(ti.queuedDttm) < Val(ti.startDate)

\* C1 as claimed: the main bar of an instance with a startDate, an endDate
\* and a taskDuration above 0 is at least 5 pixels wide, for every window and
\* every ganttWidth.
C1_MainBarAtLeastMinWidth ==
    \A i \in DOMAIN rows :
        ( /\ rows[i].hasBar
          /\ Val(rows[i].instance).startDate # NULL
          /\ Val(rows[i].instance).endDate # NULL
          /\ rows[i].taskDuration > 0 )
        => Leq(Num(MinWidth), rows[i].width)

\* C2 as claimed: whatever the state of the instance, the queued segment is
\* rendered exactly when the queued timestamp is valid.
C2_QueuedSegmentIffValid ==
    \A i \in DOMAIN rows :
        rows[i].instance # NULL =>
            (rows[i].queuedSegment <=> QueuedIsValid(Val(rows[i].instance)))

\* C2, amended: the queued segment is rendered exactly when the state of the
\* instance is not "queued" and the queued timestamp is valid; there is none
\* when queuedDttm equals startDate, and none without an instance.
C2_QueuedSegmentIffValidAndNotQueued ==
    \A i \in DOMAIN rows :
        /\ rows[i].instance = NULL => ~rows[i].queuedSegment
        /\ rows[i].instance # NULL =>
              LET ti == Val(rows[i].instance)
              IN  /\ rows[i].queuedSegment <=>
                        (ti.state # "queued" /\ QueuedIsValid(ti))
                  /\ ti.queuedDttm = ti.startDate => ~rows[i].queuedSegment

\* C2, witness: a finished instance that was queued before it started, with
\* its queued segment.
C2_Witness ==
    \E i \in DOMAIN rows :
        /\ rows[i].queuedSegment
        /\ rows[i].runDuration > 0
        /\ Val(rows[i].instance).state = "success"
        /\ Val(rows[i].instance).startDate # NULL

\* C5 as claimed: with a window of no length, the bar is not rendered or its
\* width, queuedWidth and offsetMargin are finite numbers.
C5_ZeroWindowFiniteGeometry ==
    \A i \in DOMAIN rows :
        rows[i].runDuration = 0 =>
            \/ ~rows[i].hasBar
            \/ /\ IsFinite(rows[i].width)
               /\ IsFinite(rows[i].queuedWidth)
               /\ IsFinite(rows[i].offsetMargin)

\* The reference mapping of a duration to pixels: the larger of `least` and
\* ganttWidth * duration / runDuration.
Pixels(duration, runDuration, least) ==
    IF ganttWidth * duration < least * runDuration
    THEN Num(least)
    ELSE Fin(ganttWidth * duration, runDuration)

\* duration(a, b) of two timestamps that may be absent.
Between(a, b) == IF a = NULL \/ b = NULL THEN 0 ELSE Val(b) - Val(a)

\* C9: with a window of positive length, the geometry of a bar is the
\* reference mapping; the two worked examples give 100 px at 50 px, and a
\* queued segment of 15 px that starts the bar.
C9_GeometryIsReferenceMapping ==
    \A i \in DOMAIN rows :
        (rows[i].hasBar /\ rows[i].runDuration > 0) =>
            LET ti == Val(rows[i].instance)
                runDuration == Between(ganttStartDate, ganttEndDate)
                anchor == IF QueuedIsValid(ti) THEN ti.queuedDttm ELSE ti.startDate
                example == /\ ganttStartDate = Some(0)
                           /\ ganttEndDate = Some(100)
                           /\ ganttWidth = 500
            IN  /\ rows[i].width
                      = Pixels(Between(ti.startDate, ti.endDate), runDuration, 5)
                /\ rows[i].queuedWidth
                      = IF QueuedIsValid(ti)
                        THEN Pixels(Between(ti.queuedDttm, ti.startDate), runDuration, 5)
                        ELSE Num(0)
                /\ rows[i].offsetMargin
                      = Fin(ganttWidth * Between(ganttStartDate, anchor), runDuration)
                /\ ( /\ example
                     /\ ti.startDate = Some(10)
                     /\ ti.endDate = Some(30)
                     /\ ti.queuedDttm = NULL )
                   => /\ rows[i].width = Num(100)
                      /\ rows[i].offsetMargin = Num(50)
                /\ ( /\ example
                     /\ ti.queuedDttm = Some(2)
                     /\ ti.startDate = Some(5) )
                   => /\ rows[i].queuedWidth = Num(15)
                      /\ rows[i].offsetMargin = Num(10)
                      /\ ti.state # "queued" => rows[i].queuedSegment

\* C9, witness: the second example, rendered: queued at T0+2s, started at
\* T0+5s, ended at T0+30s.
C9_Witness ==
    /\ rows # <<>>
    /\ rows[1].hasBar
    /\ ganttStartDate = Some(0)
    /\ ganttEndDate = Some(100)
    /\ ganttWidth = 500
    /\ Val(rows[1].instance).queuedDttm = Some(2)
    /\ Val(rows[1].instance).startDate = Some(5)
    /\ Val(rows[1].instance).endDate = Some(30)
    /\ rows[1].queuedSegment
    /\ rows[1].queuedWidth = Num(15)
    /\ rows[1].width = Num(125)

=============================================================================
